---------------------------- MODULE Spec2Model ----------------------------
(***************************************************************************)
(* Model of the Figma-export toolchain:                                    *)
(*   - src/apply-figma-export.js  : the importer (parseBlocks, buildSFC,   *)
(*     writeComponentsToApp, updateAppVue, main);                          *)
(*   - src/components/sections/CodeSection.vue : the plugin panel          *)
(*     (updateCode and its watchers, downloadAllFromFrame).                *)
(*                                                                         *)
(* Text is modelled as a sequence of lexemes.  A lexeme is a TLA+ string:  *)
(* a single character ("a", "_", "\n", ...) or an indivisible chunk that   *)
(* the code itself emits or matches as a whole ("=====", "Component:",     *)
(* "<script setup>\n", ...).  JavaScript string concatenation is \o,       *)
(* substring tests are tests on lexemes, and a regular expression is the   *)
(* operator that accepts the same lexeme sequences.                        *)
(***************************************************************************)
EXTENDS Integers, Sequences, FiniteSets, TLC

(***************************************************************************)
(* Generic string helpers (JavaScript String.prototype).                   *)
(***************************************************************************)
Range(s) == { s[k] : k \in 1..Len(s) }

SetMin(S) == CHOOSE x \in S : \A y \in S : x <= y

SetMax(S) == CHOOSE x \in S : \A y \in S : x >= y

\* \s of the regular expressions, and what trim() strips
WS == { " ", "\t", "\n", "\r" }

\* String.prototype.trim
Trim(s) ==
  LET idx == { k \in 1..Len(s) : s[k] \notin WS }
  IN  IF idx = {} THEN <<>> ELSE SubSeq(s, SetMin(idx), SetMax(idx))

\* !str.trim()
IsBlank(s) == Trim(s) = <<>>

\* raw.replace(/\t/g, '')
StripTabs(s) == SelectSeq(s, LAMBDA t : t # "\t")

\* Array.prototype.join
RECURSIVE Join(_, _)
Join(parts, sep) ==
  IF Len(parts) = 0 THEN <<>>
  ELSE IF Len(parts) = 1 THEN parts[1]
  ELSE parts[1] \o sep \o Join(Tail(parts), sep)

\* str.includes(sub), sub a lexeme sequence
Contains(s, sub) ==
  \E k \in 0..(Len(s) - Len(sub)) : SubSeq(s, k + 1, k + Len(sub)) = sub

\* content.split(/\r?\n/)
RECURSIVE SplitLines(_)
SplitLines(s) ==
  LET nl == { k \in 1..Len(s) : s[k] = "\n" }
  IN  IF nl = {} THEN << s >>
      ELSE LET p    == SetMin(nl)
               stop == IF p > 1 /\ s[p - 1] = "\r" THEN p - 2 ELSE p - 1
           IN  << SubSeq(s, 1, stop) >> \o SplitLines(SubSeq(s, p + 1, Len(s)))

\* String(n) for a natural number n
RECURSIVE Digits(_)
Digits(n) ==
  LET d == << "0", "1", "2", "3", "4", "5", "6", "7", "8", "9" >>
  IN  IF n < 10 THEN << d[n + 1] >> ELSE Digits(n \div 10) \o << d[(n % 10) + 1] >>

\* toLowerCase on the lexemes of the model that have upper-case letters in a
\* language tag
LowerTok(t) ==
  CASE t = "VUE" -> "vue"
    [] t = "CSS" -> "css"
    [] t = "JS"  -> "js"
    [] OTHER     -> t

ToLowerCase(s) == [ k \in 1..Len(s) |-> LowerTok(s[k]) ]

(***************************************************************************)
(* parseBlocks (apply-figma-export.js 32-65)                               *)
(***************************************************************************)
NoMatch == [ matched |-> FALSE ]

\* index of the first non-whitespace lexeme at or after k (Len+1 if none)
SkipWS(l, k) ==
  LET rest == { j \in k..Len(l) : l[j] \notin WS }
  IN  IF rest = {} THEN Len(l) + 1 ELSE SetMin(rest)

\* index of the last non-whitespace lexeme at or before k (0 if none)
LastNonWS(l, k) ==
  LET rest == { j \in 1..k : l[j] \notin WS }
  IN  IF rest = {} THEN 0 ELSE SetMax(rest)

\* "." of a regular expression matches no line terminator
NoTerminator(s) == "\n" \notin Range(s) /\ "\r" \notin Range(s)

\* line.match(/^\/\/\s*=====\s*Component:\s*(.*)\s*=====\s*$/)
compRe(l) ==
  IF Len(l) = 0 \/ l[1] # "//" THEN NoMatch
  ELSE
    LET p1 == SkipWS(l, 2)
        p2 == SkipWS(l, p1 + 1)
        q  == LastNonWS(l, Len(l))
    IN  IF /\ p1 <= Len(l) /\ l[p1] = "====="
           /\ p2 <= Len(l) /\ l[p2] = "Component:"
           /\ q > p2 /\ l[q] = "====="
           /\ NoTerminator(Trim(SubSeq(l, p2 + 1, q - 1)))
        THEN [ matched |-> TRUE, g1 |-> SubSeq(l, p2 + 1, q - 1) ]
        ELSE NoMatch

\* line.match(/^\/\/\s*----\s*(.*)\s*\((.*)\)\s*----\s*$/)
secRe(l) ==
  IF Len(l) = 0 \/ l[1] # "//" THEN NoMatch
  ELSE
    LET p1    == SkipWS(l, 2)
        q     == LastNonWS(l, Len(l))
        r     == LastNonWS(l, q - 1)
        opens == { o \in (p1 + 1)..(r - 1) :
                     /\ l[o] = "("
                     /\ NoTerminator(SubSeq(l, o + 1, r - 1))
                     /\ NoTerminator(Trim(SubSeq(l, p1 + 1, o - 1))) }
    IN  IF /\ p1 <= Len(l) /\ l[p1] = "----"
           /\ q > p1 /\ l[q] = "----"
           /\ r > p1 /\ l[r] = ")"
           /\ opens # {}
        THEN LET o == SetMax(opens)   \* the first group is greedy
             IN  [ matched |-> TRUE,
                   g1 |-> SubSeq(l, p1 + 1, o - 1),
                   g2 |-> SubSeq(l, o + 1, r - 1) ]
        ELSE NoMatch

NoComp == [ none |-> TRUE ]

\* the loop's variables before the first line: comps = [], cur = null,
\* curSection = null.  curSection, when set, is the last section of cur.
ParseInit == [ comps |-> <<>>, cur |-> NoComp, curSection |-> FALSE ]

\* faulty variant of AppendRaw: appends the tab-stripped line instead of the raw one
AppendLine(cur, raw) ==
  LET n == Len(cur.sections)
  IN  [ cur EXCEPT !.sections[n].code = @ \o StripTabs(raw) \o << "\n" >> ]

\* curSection.code += raw + '\n'
AppendRaw(cur, raw) ==
  LET n == Len(cur.sections)
  IN  [ cur EXCEPT !.sections[n].code = @ \o raw \o << "\n" >> ]

\* one iteration of `for (const raw of lines)`
ParseLine(st, raw) ==
  LET line == StripTabs(raw)
      m    == compRe(line)
      s    == secRe(line)
  IN  IF m.matched
      THEN [ comps      |-> IF st.cur = NoComp THEN st.comps
                            ELSE Append(st.comps, st.cur),
             cur        |-> [ name |-> Trim(m.g1), sections |-> <<>> ],
             curSection |-> FALSE ]
      ELSE IF s.matched /\ st.cur # NoComp
      THEN [ st EXCEPT
               !.cur.sections = Append(@, [ title |-> Trim(s.g1),
                                            lang  |-> ToLowerCase(Trim(s.g2)),
                                            code  |-> <<>> ]),
               !.curSection = TRUE ]
      ELSE IF st.curSection
      THEN [ st EXCEPT !.cur = AppendRaw(@, raw) ]
      ELSE st

RECURSIVE ParseLoop(_, _)
ParseLoop(st, lines) ==
  IF Len(lines) = 0 THEN st
  ELSE ParseLoop(ParseLine(st, Head(lines)), Tail(lines))

parseBlocks(content) ==
  LET st == ParseLoop(ParseInit, SplitLines(content))
  IN  IF st.cur = NoComp THEN st.comps ELSE Append(st.comps, st.cur)


(***************************************************************************)
(* sanitizeName, escapeHtml, cssDeclsToJsObject, buildSFC                  *)
(* (apply-figma-export.js 25-30, 67-161)                                   *)
(***************************************************************************)
DigitToks == { "0", "1", "2", "3", "4", "5", "6", "7", "8", "9" }

\* lexemes made of ASCII letters only
LetterToks == { "a", "b", "c", "Generated", "Component", "color", "red",
                "font", "size", "Size", "hi", "x", "const" }

\* lexemes made of [A-Za-z0-9] only
AlnumToks == LetterToks \cup DigitToks

\* name.replace(/\s+/g, '_')
RECURSIVE CollapseWS(_)
CollapseWS(s) ==
  IF Len(s) = 0 THEN <<>>
  ELSE IF s[1] \in WS
       THEN << "_" >> \o CollapseWS(SubSeq(s, SkipWS(s, 1), Len(s)))
       ELSE << s[1] >> \o CollapseWS(Tail(s))

\* name.replace(/[^a-zA-Z0-9\-\_ ]/g, '').trim().replace(/\s+/g, '_')
Stripped(name) ==
  CollapseWS(Trim(SelectSeq(name, LAMBDA t : t \in AlnumToks \cup { "-", "_", " " })))

\* faulty variant of sanitizeName: no fallback for an empty result
sanitizeNameNoFallback(name) == Stripped(name)

\* function sanitizeName(name): ... || 'Generated'
sanitizeName(name) ==
  IF Stripped(name) = <<>> THEN << "Generated" >> ELSE Stripped(name)

\* str.replace(/&/g, '&amp;').replace(/</g, '&lt;').replace(/>/g, '&gt;')
EscapeTok(t) ==
  CASE t = "&"      -> "&amp;"
    [] t = "<"      -> "&lt;"
    [] t = ">"      -> "&gt;"
    [] t = "<div>"  -> "&lt;div&gt;"
    [] t = "</div>" -> "&lt;/div&gt;"
    [] t = "<div"   -> "&lt;div"
    [] OTHER        -> t

escapeHtml(str) == [ k \in 1..Len(str) |-> EscapeTok(str[k]) ]

\* cssText.split(/;\s*\n?/)
RECURSIVE SplitSemi(_)
SplitSemi(s) ==
  LET semi == { k \in 1..Len(s) : s[k] = ";" }
  IN  IF semi = {} THEN << s >>
      ELSE LET p == SetMin(semi)
           IN  << SubSeq(s, 1, p - 1) >>
                 \o SplitSemi(SubSeq(s, SkipWS(s, p + 1), Len(s)))

\* c.toUpperCase() on the first letter of a lexeme
CapTok(t) ==
  CASE t = "size"  -> "Size"
    [] t = "color" -> "Color"
    [] t = "a"     -> "A"
    [] OTHER       -> t

\* lexemes that start with [a-z]
LowerStartToks == { "a", "b", "c", "color", "red", "font", "size", "hi", "x", "const" }

\* prop.replace(/-([a-z])/g, (_, c) => c.toUpperCase())
RECURSIVE CamelCase(_)
CamelCase(s) ==
  IF Len(s) = 0 THEN <<>>
  ELSE IF Len(s) >= 2 /\ s[1] = "-" /\ s[2] \in LowerStartToks
       THEN << CapTok(s[2]) >> \o CamelCase(SubSeq(s, 3, Len(s)))
       ELSE << s[1] >> \o CamelCase(Tail(s))

\* obj[key] = val on an object kept as its ordered list of entries
SetKey(obj, key, val) ==
  IF \E k \in 1..Len(obj) : obj[k].key = key
  THEN [ k \in 1..Len(obj) |->
           IF obj[k].key = key THEN [ key |-> key, val |-> val ] ELSE obj[k] ]
  ELSE Append(obj, [ key |-> key, val |-> val ])

RECURSIVE DeclsToObj(_, _)
DeclsToObj(obj, lines) ==
  IF Len(lines) = 0 THEN obj
  ELSE LET ln    == Head(lines)
           colon == { k \in 1..Len(ln) : ln[k] = ":" }
       IN  IF colon = {} THEN DeclsToObj(obj, Tail(lines))
           ELSE LET idx  == SetMin(colon)
                    prop == Trim(SubSeq(ln, 1, idx - 1))
                    val  == Trim(SubSeq(ln, idx + 1, Len(ln)))
                IN  DeclsToObj(SetKey(obj, CamelCase(prop), val), Tail(lines))

\* v.replace(/'/g, "\\'")
EscapeQuotes(v) == [ k \in 1..Len(v) |-> IF v[k] = "'" THEN "\\'" ELSE v[k] ]

\* function cssDeclsToJsObject(cssText)
cssDeclsToJsObject(cssText) ==
  LET pieces  == SplitSemi(cssText)
      trimmed == [ k \in 1..Len(pieces) |-> Trim(pieces[k]) ]
      lines   == SelectSeq(trimmed, LAMBDA l : l # <<>>)
      obj     == DeclsToObj(<<>>, lines)
      entries == [ k \in 1..Len(obj) |->
                     << "  " >> \o obj[k].key \o << ": '" >>
                       \o EscapeQuotes(obj[k].val) \o << "'" >> ]
  IN  << "{\n" >> \o Join(entries, << ",\n" >>) \o << "\n}" >>

\* lexemes made of [a-zA-Z-] only
CssIdentToks == LetterToks \cup { "-" }

\* /^\s*[a-zA-Z-]+\s*:/m.test(joined)
looksLikeDecls(joined) ==
  \E p \in 1..Len(joined) :
    /\ p = 1 \/ joined[p - 1] \in { "\n", "\r" }
    /\ LET a    == SkipWS(joined, p)
           stop == { k \in a..Len(joined) : joined[k] \notin CssIdentToks }
           e    == IF stop = {} THEN Len(joined) + 1 ELSE SetMin(stop)
           b    == SkipWS(joined, e)
       IN  /\ a <= Len(joined)
           /\ e > a
           /\ b <= Len(joined)
           /\ joined[b] = ":"

\* /^\{[\s\S]*\}$/.test(first)
IsWrapped(first) == Len(first) >= 2 /\ first[1] = "{" /\ first[Len(first)] = "}"

TemplateLangs == { << "html" >>, << "vue" >>, << "template" >>, << "component" >> }

ScriptLangs == { << "js" >>, << "jsx" >>, << "tsx" >> }

\* the section's code as it enters htmlParts, cssParts or jsParts (75-84)
IsCssSec(sec)  == sec.lang # <<>> /\ "css" \in Range(sec.lang)

IsHtmlSec(sec) == sec.lang # <<>> /\ ~IsCssSec(sec) /\ sec.lang \in TemplateLangs

IsJsSec(sec)   == sec.lang # <<>> /\ ~IsCssSec(sec) /\ sec.lang \notin TemplateLangs
                  /\ sec.lang \in ScriptLangs

IsOtherSec(sec) == sec.lang # <<>> /\ ~IsCssSec(sec) /\ sec.lang \notin TemplateLangs
                   /\ sec.lang \notin ScriptLangs

CodesOf(secs) == [ k \in 1..Len(secs) |-> secs[k].code ]

\* cssParts and jsParts after the loop over component.sections (75-84)
CssParts(secs) == CodesOf(SelectSeq(secs, IsCssSec))

JsParts(secs) == CodesOf(SelectSeq(secs, IsJsSec))

\* one entry of htmlParts: the code as is, or escaped inside <pre>
HtmlPart(sec) ==
  IF IsHtmlSec(sec) THEN sec.code
  ELSE << "<pre>" >> \o escapeHtml(sec.code) \o << "</pre>" >>

\* htmlParts after the loop over component.sections (75-84)
HtmlParts(secs) ==
  LET tplSecs == SelectSeq(secs, LAMBDA s : IsHtmlSec(s) \/ IsOtherSec(s))
  IN  [ k \in 1..Len(tplSecs) |-> HtmlPart(tplSecs[k]) ]

\* sanitizeName(component.name || `Component_${idx + 1}`)
NameBase(component, idx) ==
  sanitizeName(IF component.name # <<>> THEN component.name
               ELSE << "Component", "_" >> \o Digits(idx + 1))

\* nameBase.replace(/[^A-Za-z0-9_]/g, '')
CompName(nameBase) == SelectSeq(nameBase, LAMBDA t : t \in AlnumToks \cup { "_" })

\* template before the script resolution (86-93)
Template0(component, htmlParts) ==
  IF Len(htmlParts) > 0 THEN Join(htmlParts, << "\n" >>)
  ELSE << "\n<div class=\"generated-root\">\n  <!-- generated component: " >>
         \o component.name \o << " -->\n  <div>" >> \o component.name
         \o << "</div>\n</div>\n" >>

\* if (!template.includes(':style')) template = `\n<div :style="inlineStyle">...`
WrapStyle(template) ==
  IF ":style" \in Range(template) THEN template
  ELSE << "\n<div :style=\"inlineStyle\">\n" >> \o template \o << "\n</div>\n" >>

\* faulty variant of JsStyle: any script part may be the style object
JsStyleAny(jsParts) ==
  \E k \in 1..Len(jsParts) : IsWrapped(Trim(jsParts[k]))

\* the branch at 121: the first script part is a style object
JsStyle(jsParts) == Len(jsParts) > 0 /\ IsWrapped(Trim(jsParts[1]))

\* the branch at 131-135: no script part, css parts that look like declarations
CssStyle(jsParts, cssParts) ==
  Len(jsParts) = 0 /\ Len(cssParts) > 0 /\ looksLikeDecls(Join(cssParts, << "\n" >>))

\* scriptSetup after 119-144
ScriptSetup(jsParts, cssParts) ==
  IF JsStyle(jsParts)
  THEN << "const inlineStyle = " >> \o Trim(jsParts[1]) \o << "\n" >>
  ELSE IF Len(jsParts) > 0 THEN Join(jsParts, << "\n" >>) \o << "\n" >>
  ELSE IF CssStyle(jsParts, cssParts)
  THEN << "const inlineStyle = " >>
         \o cssDeclsToJsObject(Join(cssParts, << "\n" >>)) \o << "\n" >>
  ELSE <<>>

\* template after 119-144
Template(template0, jsParts, cssParts) ==
  IF JsStyle(jsParts) \/ CssStyle(jsParts, cssParts) THEN WrapStyle(template0)
  ELSE template0

\* script (146-150)
Script(scriptSetup, compName) ==
  IF scriptSetup # <<>>
  THEN << "<script setup>\n" >> \o scriptSetup \o << "\n</script>\n" >>
  ELSE << "<script>\n", "export default { name: '" >> \o compName
         \o << "' }", "\n</script>\n" >>

\* style (152), cssParts as left by 142
Style(cssParts) ==
  IF Len(cssParts) > 0
  THEN << "<style scoped>\n" >> \o Join(cssParts, << "\n" >>) \o << "\n</style>\n" >>
  ELSE <<>>

\* faulty variant of CssLeft: the inlined css parts are not cleared
CssLeftKept(jsParts, cssParts) == cssParts

\* cssParts after `cssParts.length = 0` (142)
CssLeft(jsParts, cssParts) ==
  IF CssStyle(jsParts, cssParts) THEN <<>> ELSE cssParts

\* sfc and the returned object (154-156)
Assemble(component, compName, htmlParts, cssParts, jsParts) ==
  [ filename |-> compName \o << ".vue" >>,
    content  |-> << "<!-- Generated from Figma export: " >> \o component.name
                   \o << " ", "-->", "\n<template>\n" >>
                   \o Template(Template0(component, htmlParts), jsParts, cssParts)
                   \o << "\n</template>\n\n" >>
                   \o Script(ScriptSetup(jsParts, cssParts), compName)
                   \o << "\n" >>
                   \o Style(CssLeft(jsParts, cssParts)) ]

\* function buildSFC(component, idx); idx is the 0-based forEach index
buildSFC(component, idx) ==
  Assemble(component, CompName(NameBase(component, idx)),
           HtmlParts(component.sections), CssParts(component.sections),
           JsParts(component.sections))

(***************************************************************************)
(* downloadAllFromFrame (CodeSection.vue 57-106): the exporter that        *)
(* produces the importer's input file.                                     *)
(***************************************************************************)
NoFile == << "ENOENT" >>

\* the parts pushed for one child of the frame (69-85)
RECURSIVE BlockParts(_)
BlockParts(blocks) ==
  IF Len(blocks) = 0 THEN <<>>
  ELSE LET b == Head(blocks)
       IN  << << "//", " ", "----", " " >>
                \o (IF b.title # <<>> THEN b.title ELSE b.name)
                \o << " ", "(" >> \o b.lang \o << ")", " ", "----", "\n" >>,
              b.code,
              << "\n" >> >> \o BlockParts(Tail(blocks))

RECURSIVE ChildParts(_)
ChildParts(children) ==
  IF Len(children) = 0 THEN <<>>
  ELSE LET child == Head(children)
       IN  IF ~child.component THEN ChildParts(Tail(children))
           ELSE << << "//", " ", "=====", " ", "Component:", " " >>
                     \o (IF child.name # <<>> THEN child.name ELSE child.id)
                     \o << " ", "=====", "\n" >> >>
                  \o BlockParts(child.blocks) \o ChildParts(Tail(children))

\* the text of the downloaded file, or NoFile when nothing is downloaded
downloadAllFromFrame(children) ==
  LET parts == ChildParts(children)
  IN  IF Len(parts) = 0 THEN NoFile ELSE Join(parts, << "\n" >>)

(***************************************************************************)
(* writeComponentsToApp, updateAppVue (apply-figma-export.js 185-242)      *)
(***************************************************************************)
VueLangs == { << "vue" >>, << "template" >>, << "component" >> }

\* c.sections.find(s => ['vue', 'template', 'component'].includes(s.lang))
FindTpl(c) ==
  LET hits == { k \in 1..Len(c.sections) : c.sections[k].lang \in VueLangs }
  IN  IF hits = {} THEN 0 ELSE SetMin(hits)

\* the negation of the early return at 194-196
Generates(c) ==
  LET k == FindTpl(c)
  IN  k # 0 /\ c.sections[k].code # <<>> /\ ~IsBlank(c.sections[k].code)

\* filename.replace(/\.vue$/i, '')
BaseOf(filename) ==
  IF Len(filename) > 0 /\ filename[Len(filename)] \in { ".vue", ".VUE" }
  THEN SubSeq(filename, 1, Len(filename) - 1)
  ELSE filename

\* lexemes that contain the character '
QuoteToks == { "'", "' }", "\\'", ": '", "export default { name: '" }

\* lexemes that contain the character >
GtToks == { ">", "-->", "<div>", "</div>", "\n<template>\n", "\n</template>\n\n",
            "<script setup>\n", "<script>\n", "\n</script>\n", "<style scoped>\n",
            "\n</style>\n", "<pre>", "</pre>", "\n<div :style=\"inlineStyle\">\n",
            "\n</div>\n", "</div>\n</div>\n", " -->\n  <div>",
            "\n<div class=\"generated-root\">\n  <!-- generated component: " }

\* first index after k of a lexeme in S (Len+1 if none)
NextIn(s, k, S) ==
  LET hits == { j \in (k + 1)..Len(s) : s[j] \in S }
  IN  IF hits = {} THEN Len(s) + 1 ELSE SetMin(hits)

\* content.replace(/export default \{\s*name:\s*'[^']*'\s*\}/,
\*                 `export default { name: '${newBase}' }`)
ReplaceExportName(content, newBase) ==
  LET hits == { k \in 1..Len(content) :
                  /\ content[k] = "export default { name: '"
                  /\ NextIn(content, k, QuoteToks) <= Len(content)
                  /\ content[NextIn(content, k, QuoteToks)] = "' }" }
  IN  IF hits = {} THEN content
      ELSE LET k == SetMin(hits)
               e == NextIn(content, k, QuoteToks)
           IN  SubSeq(content, 1, k) \o newBase \o SubSeq(content, e, Len(content))

\* content.replace(/<!-- Generated from Figma export: [^>]*-->/,
\*                 `<!-- Generated from Figma export: ${c.name} -->`)
ReplaceHeader(content, name) ==
  LET hits == { k \in 1..Len(content) :
                  /\ content[k] = "<!-- Generated from Figma export: "
                  /\ NextIn(content, k, GtToks) <= Len(content)
                  /\ content[NextIn(content, k, GtToks)] = "-->" }
  IN  IF hits = {} THEN content
      ELSE LET k == SetMin(hits)
               e == NextIn(content, k, GtToks)
           IN  SubSeq(content, 1, k) \o name \o << " " >>
                 \o SubSeq(content, e, Len(content))

\* used.has(base)
Has(used, base) == base \in DOMAIN used

\* faulty variant of MapSet: the count of a base name already present is not updated
MapSetIfAbsent(used, base, count) ==
  [ b \in DOMAIN used \cup { base } |-> IF b \in DOMAIN used THEN used[b] ELSE count ]

\* used.set(base, count)
MapSet(used, base, count) ==
  [ b \in DOMAIN used \cup { base } |-> IF b = base THEN count ELSE used[b] ]

\* 202-214: the name and content settled on for a component whose buildSFC
\* result is sfc and whose base name is base, and the collision table left
Disambiguate(c, sfc, base, used) ==
  IF Has(used, base)
  THEN [ base     |-> base,
         filename |-> base \o << "_" >> \o Digits(used[base] + 1) \o << ".vue" >>,
         content  |-> ReplaceHeader(
                        ReplaceExportName(sfc.content,
                                          base \o << "_" >> \o Digits(used[base] + 1)),
                        c.name),
         used     |-> MapSet(used, base, used[base] + 1) ]
  ELSE [ base     |-> base,
         filename |-> sfc.filename,
         content  |-> sfc.content,
         used     |-> MapSet(used, base, 1) ]

\* 198-200: let sfc = buildSFC(c, i); const base = filename.replace(...)
WithBase(c, sfc, used) == Disambiguate(c, sfc, BaseOf(sfc.filename), used)

\* the forEach body (198-214) for component c at 0-based index idx
Resolve(c, idx, used) == WithBase(c, buildSFC(c, idx), used)

\* fs.writeFileSync(path.join(dir, filename), content, 'utf8')
WriteFile(dir, filename, content) ==
  [ f \in DOMAIN dir \cup { filename } |-> IF f = filename THEN content ELSE dir[f] ]

\* path.basename(f, '.vue')
Basename(f) ==
  IF Len(f) > 1 /\ f[Len(f)] = ".vue" THEN SubSeq(f, 1, Len(f) - 1)
  ELSE IF f = << ".vue" >> THEN <<>> ELSE f

\* the new App.vue of updateAppVue(files)
updateAppVue(files) ==
  LET imports == Join([ k \in 1..Len(files) |->
                          << "import " >> \o Basename(files[k])
                            \o << " from './components/" >> \o files[k] \o << "'" >> ],
                      << "\n" >>)
      uses    == Join([ k \in 1..Len(files) |->
                          << "<section><h3>" >> \o Basename(files[k]) \o << "</h3><" >>
                            \o Basename(files[k]) \o << " /></section>" >> ],
                      << "\n" >>)
  IN  << "<!-- Auto-generated App.vue: shows generated Figma components -->" >>
        \o uses \o << "<script setup lang=\"ts\">\n" >> \o imports
        \o << "\n</script>\n" >>

(***************************************************************************)
(* State                                                                   *)
(***************************************************************************)
VARIABLES
  \* the importer, one run of main()
  pc,            \* where main() stands
  inputFile,     \* text of the input file, NoFile when it does not exist
  targetExists,  \* fs.existsSync(targetApp)
  compDirExists, \* fs.existsSync(compDir)
  compDir,       \* files of my-vue-app/src/components: filename -> content
  appVue,        \* content of my-vue-app/src/App.vue
  comps,         \* const comps = parseBlocks(content)
  i,             \* 0-based index of the next component of comps.forEach
  used,          \* const used = new Map()
  files,         \* const files = []
  exitCode,      \* process exit code, -1 while running
  log,           \* history: what the forEach body did with each component
  \* a pure function applied to an input
  arg, ret,
  \* the plugin panel (CodeSection.vue)
  selectedNode, selection, options, activePlugin,
  componentCode, codeBlocks, warning,
  calls,         \* the updateCode invocations that are suspended at an await
  started        \* history: number of updateCode invocations so far

varsMain == << pc, inputFile, targetExists, compDirExists, compDir, appVue,
               comps, i, used, files, exitCode, log >>

varsFn == << arg, ret >>

varsUI == << selectedNode, selection, options, activePlugin,
             componentCode, codeBlocks, warning, calls, started >>

vars == << varsMain, varsFn, varsUI >>

None == << "none" >>

MainIdle ==
  /\ pc = "idle" /\ inputFile = NoFile /\ targetExists = FALSE
  /\ compDirExists = FALSE /\ compDir = <<>> /\ appVue = <<>>
  /\ comps = <<>> /\ i = 0 /\ used = <<>> /\ files = <<>>
  /\ exitCode = -1 /\ log = <<>>

\* no result yet / the result of the application
Pending == [ done |-> FALSE ]

Done(v) == [ done |-> TRUE, val |-> v ]

FnIdle == arg = None /\ ret = Pending

UIIdle ==
  /\ selectedNode = "null" /\ selection = 0 /\ options = "px"
  /\ activePlugin = "none" /\ componentCode = "" /\ codeBlocks = <<>>
  /\ warning = "" /\ calls = {} /\ started = 0

(***************************************************************************)
(* Inputs of the importer: what the exporter downloads for a frame         *)
(***************************************************************************)
MaxComps == 3

Tpl   == << "<div>", "hi", "</div>" >>

Decl  == << "color", ":", " ", "red", ";" >>

Rule  == << ".a", " ", "{", " ", "color", ":", " ", "red", ";", " ", "}" >>

JsObj == << "{", " ", "color", ":", " ", "'", "red", "'", " ", "}" >>

JsRaw == << "const", " ", "x" >>

Blk(lang, code) ==
  [ title |-> << "Root" >>, name |-> << "root" >>, lang |-> lang, code |-> code ]

Child(name, blocks) ==
  [ name |-> name, id |-> << "1", ":", "2" >>, component |-> TRUE, blocks |-> blocks ]

Children ==
  { Child(<< "a" >>, << Blk(<< "vue" >>, Tpl) >>),
    Child(<< "a" >>, << Blk(<< "VUE" >>, Tpl), Blk(<< "css" >>, Decl) >>),
    Child(<< "a", "_", "2" >>, << Blk(<< "template" >>, Tpl) >>),
    Child(<< "!" >>, << Blk(<< "component" >>, Tpl) >>),
    Child(<< " " >>, << Blk(<< "vue" >>, Tpl) >>),
    Child(<< "b" >>, << Blk(<< "html" >>, Tpl) >>),
    Child(<< "b" >>, << Blk(<< "vue" >>, << " " >>), Blk(<< "template" >>, Tpl) >>),
    Child(<< "c" >>, << Blk(<< "css" >>, Decl) >>),
    Child(<< "a", " ", "b" >>, <<>>),
    [ Child(<< "c" >>, << Blk(<< "vue" >>, Tpl) >>) EXCEPT !.component = FALSE ] }

Frames == UNION { [ 1..n -> Children ] : n \in 0..MaxComps }

\* hand-written input files with no component header
HandEdited == { <<>>, << "x", "\n", "//", " ", "----", " ", "(", "vue", ")", " ", "----", "\n" >> }

InputFiles == { downloadAllFromFrame(f) : f \in Frames } \cup HandEdited \cup { NoFile }

OldFile == << "old" >>

(***************************************************************************)
(* main (apply-figma-export.js 244-281)                                    *)
(***************************************************************************)
Init ==
  /\ pc = "checkInput"
  /\ inputFile \in InputFiles
  /\ targetExists \in BOOLEAN
  /\ compDirExists \in BOOLEAN
  /\ compDirExists => targetExists
  /\ compDir = IF compDirExists THEN [ f \in { << "a", ".vue" >> } |-> OldFile ] ELSE <<>>
  /\ appVue = OldFile
  /\ comps = <<>> /\ i = 0 /\ used = <<>> /\ files = <<>>
  /\ exitCode = -1 /\ log = <<>>
  /\ FnIdle /\ UIIdle

\* process.exit(1)
Exit1 == pc' = "exited" /\ exitCode' = 1

\* if (!fs.existsSync(inputFile)) { ...; process.exit(1) }
CheckInput ==
  /\ pc = "checkInput"
  /\ IF inputFile = NoFile THEN Exit1
     ELSE pc' = "checkTarget" /\ UNCHANGED exitCode
  /\ UNCHANGED << inputFile, targetExists, compDirExists, compDir, appVue,
                  comps, i, used, files, log, varsFn, varsUI >>

\* if (!fs.existsSync(targetApp)) { ...; process.exit(1) }
CheckTarget ==
  /\ pc = "checkTarget"
  /\ IF ~targetExists THEN Exit1
     ELSE pc' = "parse" /\ UNCHANGED exitCode
  /\ UNCHANGED << inputFile, targetExists, compDirExists, compDir, appVue,
                  comps, i, used, files, log, varsFn, varsUI >>

\* const comps = parseBlocks(content); if (!comps.length) { ...; process.exit(1) }
Parse ==
  /\ pc = "parse"
  /\ comps' = parseBlocks(inputFile)
  /\ IF Len(comps') = 0 THEN Exit1
     ELSE pc' = "mkdir" /\ UNCHANGED exitCode
  /\ UNCHANGED << inputFile, targetExists, compDirExists, compDir, appVue,
                  i, used, files, log, varsFn, varsUI >>

\* writeComponentsToApp, 186-190: safeMkdir(compDir); files = []; used = new Map()
WriteBegin ==
  /\ pc = "mkdir"
  /\ compDirExists' = TRUE
  /\ files' = <<>> /\ used' = <<>> /\ i' = 0
  /\ pc' = "forEach"
  /\ UNCHANGED << inputFile, targetExists, compDir, appVue, comps, exitCode,
                  log, varsFn, varsUI >>

\* forEach body, 193-196: the component has no usable template section
SkipComp ==
  /\ pc = "forEach" /\ i < Len(comps)
  /\ ~Generates(comps[i + 1])
  /\ i' = i + 1
  /\ log' = Append(log, [ idx |-> i, wrote |-> FALSE, base |-> <<>>,
                          filename |-> <<>>, content |-> <<>> ])
  /\ UNCHANGED << pc, inputFile, targetExists, compDirExists, compDir, appVue,
                  comps, used, files, exitCode, varsFn, varsUI >>

\* 216-218: writeFileSync(p, sfc.content); files.push(filename)
WriteResolved(r) ==
  /\ used' = r.used
  /\ compDir' = WriteFile(compDir, r.filename, r.content)
  /\ files' = Append(files, r.filename)
  /\ log' = Append(log, [ idx |-> i, wrote |-> TRUE, base |-> r.base,
                          filename |-> r.filename, content |-> r.content ])

\* forEach body, 198-219: build, disambiguate, write, push
WriteComp ==
  /\ pc = "forEach" /\ i < Len(comps)
  /\ Generates(comps[i + 1])
  /\ WriteResolved(Resolve(comps[i + 1], i, used))
  /\ i' = i + 1
  /\ UNCHANGED << pc, inputFile, targetExists, compDirExists, appVue,
                  comps, exitCode, varsFn, varsUI >>

\* faulty variant of CheckFiles: App.vue is rewritten before the file list is checked
UpdateBeforeCheck ==
  /\ pc = "forEach" /\ i = Len(comps)
  /\ appVue' = updateAppVue(files)
  /\ IF Len(files) = 0 THEN Exit1
     ELSE pc' = "done" /\ exitCode' = 0
  /\ UNCHANGED << inputFile, targetExists, compDirExists, compDir,
                  comps, i, used, files, log, varsFn, varsUI >>

\* return files; if (!files.length) { ...; process.exit(1) }
CheckFiles ==
  /\ pc = "forEach" /\ i = Len(comps)
  /\ IF Len(files) = 0 THEN Exit1
     ELSE pc' = "updateAppVue" /\ UNCHANGED exitCode
  /\ UNCHANGED << inputFile, targetExists, compDirExists, compDir, appVue,
                  comps, i, used, files, log, varsFn, varsUI >>

\* updateAppVue(files); main returns, exit code 0
UpdateAppVue ==
  /\ pc = "updateAppVue"
  /\ appVue' = updateAppVue(files)
  /\ pc' = "done" /\ exitCode' = 0
  /\ UNCHANGED << inputFile, targetExists, compDirExists, compDir,
                  comps, i, used, files, log, varsFn, varsUI >>

Next ==
  \/ CheckInput \/ CheckTarget \/ Parse \/ WriteBegin
  \/ SkipComp \/ WriteComp \/ CheckFiles \/ UpdateAppVue

Spec == Init /\ [][Next]_vars

(***************************************************************************)
(* parseBlocks applied to bounded input texts                              *)
(***************************************************************************)
MaxLines == 4

ParseLines ==
  { << "//", "\t", "=====", " ", "Component:", " ", "a", " ", "=====" >>,
    << "//", " ", "----", " ", "Root", " ", "(", "vue", ")", " ", "----" >>,
    << "\t", "//", "----", "(", "CSS", ")", "----", " " >>,
    << "\t", "x", "\t" >>,
    <<>>,
    << "//", " ", "=====", " ", "Component:", " ", "a" >> }

LineSeqs == UNION { [ 1..n -> ParseLines ] : n \in 0..MaxLines }

\* a text file of the given lines: LF after every line, LF between the lines
\* only, or CRLF after every line
Texts ==
  { Join(ls, << "\n" >>) : ls \in LineSeqs }
    \cup { Join([ k \in 1..Len(ls) |-> ls[k] \o << "\n" >> ], <<>>) : ls \in LineSeqs }
    \cup { Join([ k \in 1..Len(ls) |-> ls[k] \o << "\r", "\n" >> ], <<>>) : ls \in LineSeqs }

InitParse ==
  /\ arg \in Texts
  /\ ret = Pending
  /\ MainIdle /\ UIIdle

ApplyParse ==
  /\ ~ret.done
  /\ ret' = Done(parseBlocks(arg))
  /\ UNCHANGED << arg, varsMain, varsUI >>

NextParse == ApplyParse

SpecParse == InitParse /\ [][NextParse]_vars

(***************************************************************************)
(* buildSFC applied to bounded components                                  *)
(***************************************************************************)
MaxSecs == 3

TplStyled == << "<div", " ", ":style", "=", "s", ">" >>

Sec(lang, code) == [ title |-> << "Root" >>, lang |-> lang, code |-> code ]

SecKinds ==
  { Sec(<< "vue" >>, Tpl),
    Sec(<< "html" >>, TplStyled),
    Sec(<< "js" >>, JsObj),
    Sec(<< "jsx" >>, JsRaw),
    Sec(<< "tsx" >>, << "\n", "{", "}", " ", "\n" >>),
    Sec(<< "css" >>, Decl),
    Sec(<< "s", "css" >>, Rule),
    Sec(<< "json" >>, << "<", "x", "&" >>),
    Sec(<<>>, Tpl) }

SecSeqs == UNION { [ 1..n -> SecKinds ] : n \in 0..MaxSecs }

InitSFC ==
  /\ arg \in { [ component |-> [ name |-> nm, sections |-> ss ], idx |-> ix ] :
                 nm \in { << "a" >>, <<>> }, ss \in SecSeqs, ix \in { 0, 1 } }
  /\ ret = Pending
  /\ MainIdle /\ UIIdle

ApplySFC ==
  /\ ~ret.done
  /\ ret' = Done(buildSFC(arg.component, arg.idx))
  /\ UNCHANGED << arg, varsMain, varsUI >>

NextSFC == ApplySFC

SpecSFC == InitSFC /\ [][NextSFC]_vars

(***************************************************************************)
(* The code panel: updateCode and its watchers (CodeSection.vue 24-55,     *)
(* 108-112)                                                                *)
(***************************************************************************)
MaxCalls == 3

Nodes == { "A", "B" }

CssUnits == { "px", "rem" }

Plugins == { "none", "P" }

\* (await codegen(style, component, serializeOptions, plugin)).codeBlocks for
\* the style and component of node
CodegenBlocks(node, opts, plugin) == << node, opts, plugin >>

\* selectedTemPadComponent.value?.code || ''
ComponentCodeOf(node) == IF node = "A" THEN "codeA" ELSE ""

\* 'warning' in node ? node.warning : ''
WarningOf(node) == IF node = "B" THEN "warnB" ELSE ""

InitUI ==
  /\ selectedNode = "null" /\ selection = 0
  /\ options \in CssUnits
  /\ activePlugin \in Plugins
  /\ componentCode = "" /\ codeBlocks = <<>> /\ warning = ""
  /\ calls = {} /\ started = 0
  /\ MainIdle /\ FnIdle

\* updateCode up to its first await (25-38), run by a watcher
updateCode ==
  /\ started' = started + 1
  /\ IF selectedNode' = "null" \/ selection' > 1
     THEN /\ codeBlocks' = <<>>
          /\ UNCHANGED << componentCode, calls >>
     ELSE /\ componentCode' = ComponentCodeOf(selectedNode')
          /\ calls' = calls \cup { [ id |-> started + 1, node |-> selectedNode',
                                     stage |-> "getCSSAsync",
                                     opts |-> "", plugin |-> "" ] }
          /\ UNCHANGED codeBlocks
  /\ UNCHANGED warning

\* the selection changes: watch([selectedNode, activePlugin], updateCode)
SelectNode ==
  /\ started < MaxCalls
  /\ \E n \in Nodes \cup { "null" }, cnt \in 0..2 :
       /\ n # selectedNode
       /\ (n = "null") = (cnt = 0)
       /\ selectedNode' = n
       /\ selection' = cnt
  /\ UNCHANGED << options, activePlugin >>
  /\ updateCode
  /\ UNCHANGED << varsMain, varsFn >>

\* the active plugin changes: watch([selectedNode, activePlugin], updateCode)
ChangePlugin ==
  /\ started < MaxCalls
  /\ \E p \in Plugins : p # activePlugin /\ activePlugin' = p
  /\ UNCHANGED << selectedNode, selection, options >>
  /\ updateCode
  /\ UNCHANGED << varsMain, varsFn >>

\* an option changes: watch(options, updateCode, { deep: true })
ChangeOptions ==
  /\ started < MaxCalls
  /\ \E o \in CssUnits : o # options /\ options' = o
  /\ UNCHANGED << selectedNode, selection, activePlugin >>
  /\ updateCode
  /\ UNCHANGED << varsMain, varsFn >>

\* node.getCSSAsync() resolves: 39-47 up to the await of codegen(...)
ResolveCSS ==
  /\ \E c \in calls :
       /\ c.stage = "getCSSAsync"
       /\ calls' = (calls \ { c })
                     \cup { [ c EXCEPT !.stage = "codegen", !.opts = options,
                                       !.plugin = activePlugin ] }
  /\ UNCHANGED << selectedNode, selection, options, activePlugin,
                  componentCode, codeBlocks, warning, started, varsMain, varsFn >>

\* codegen(...) resolves: 46-54
ResolveCodegen ==
  /\ \E c \in calls :
       /\ c.stage = "codegen"
       /\ codeBlocks' = CodegenBlocks(c.node, c.opts, c.plugin)
       /\ warning' = WarningOf(c.node)
       /\ calls' = calls \ { c }
  /\ UNCHANGED << selectedNode, selection, options, activePlugin,
                  componentCode, started, varsMain, varsFn >>

NextUI ==
  \/ SelectNode \/ ChangePlugin \/ ChangeOptions \/ ResolveCSS \/ ResolveCodegen

SpecUI == InitUI /\ [][NextUI]_vars

(***************************************************************************)
(* Properties of the importer (checked under Spec)                         *)
(***************************************************************************)
\* the component that log entry k is about
CompOf(k) == comps[log[k].idx + 1]

\* number of components written before log entry k with the same base name
EarlierSame(k) ==
  Cardinality({ j \in 1..(k - 1) : log[j].wrote /\ log[j].base = log[k].base })

\* at least one section with a template-like lang and code that is not blank
HasTemplateSection(c) ==
  \E k \in 1..Len(c.sections) :
    c.sections[k].lang \in TemplateLangs /\ ~IsBlank(c.sections[k].code)

\* C1: a component yields a written .vue file, and an entry of the returned
\* file list, if and only if at least one of its sections has a lang among
\* html, vue, template, component with code that is not blank.
C1_FileIffTemplateSection ==
  \A k \in 1..Len(log) :
    /\ log[k].wrote <=> HasTemplateSection(CompOf(k))
    /\ log[k].wrote => \E j \in 1..Len(files) : files[j] = log[k].filename

\* C2: the filenames written in one run are pairwise distinct, so no
\* component's file overwrites the file of an earlier component of the run.
C2_FilenamesDistinct ==
  \A j, k \in 1..Len(files) : j # k => files[j] # files[k]

\* no file of the components directory has been created or overwritten
NoComponentWritten ==
  /\ \A f \in DOMAIN compDir : compDir[f] = OldFile
  /\ \A k \in 1..Len(log) : ~log[k].wrote

\* C3: a run of main that ends with exit code 1 has written no component
\* file and has left App.vue untouched; App.vue is overwritten only in a run
\* where the input file and the target exist, at least one component was
\* parsed and at least one file was generated.
C3_NoWriteOnExit1 ==
  /\ exitCode = 1 => NoComponentWritten /\ appVue = OldFile
  /\ appVue # OldFile =>
       /\ exitCode = 0
       /\ inputFile # NoFile /\ targetExists
       /\ Len(comps) > 0 /\ Len(files) > 0

\* a run that parsed components, ran the whole forEach and exited with 1
C3_Witness ==
  /\ exitCode = 1
  /\ Len(comps) > 0
  /\ Len(log) = Len(comps)

\* C5 as stated: the first component of a base name keeps it, the k-th later
\* one is written as <base>_k.vue.
C5_SuffixIsK ==
  \A k \in 1..Len(log) :
    log[k].wrote =>
      log[k].filename =
        IF EarlierSame(k) = 0 THEN log[k].base \o << ".vue" >>
        ELSE log[k].base \o << "_" >> \o Digits(EarlierSame(k)) \o << ".vue" >>

\* C5 amended: the first component of a base name keeps it, the k-th later
\* one is written as <base>_(k+1).vue (_2 for the second occurrence).
C5_SuffixIsKPlusOne ==
  \A k \in 1..Len(log) :
    log[k].wrote =>
      log[k].filename =
        IF EarlierSame(k) = 0 THEN log[k].base \o << ".vue" >>
        ELSE log[k].base \o << "_" >> \o Digits(EarlierSame(k) + 1) \o << ".vue" >>

\* a third component with the same base name has been written
C5_Witness ==
  \E k \in 1..Len(log) : log[k].wrote /\ EarlierSame(k) >= 2

\* C6: when a collision suffix is applied, the header comment of the written
\* content, and its default-export name when the script is the plain default
\* export, name the component by the suffixed base name of its file.
C6_RenamedContentMatches ==
  \A k \in 1..Len(log) :
    (log[k].wrote /\ EarlierSame(k) > 0) =>
      /\ Contains(log[k].content,
                  << "<!-- Generated from Figma export: " >>
                    \o BaseOf(log[k].filename) \o << " ", "-->" >>)
      /\ "<script>\n" \in Range(log[k].content) =>
           Contains(log[k].content,
                    << "export default { name: '" >>
                      \o BaseOf(log[k].filename) \o << "' }" >>)

\* every section is CSS-tagged and together they match the heuristic
CssOnlyDecls(c) ==
  /\ Len(c.sections) > 0
  /\ \A k \in 1..Len(c.sections) : "css" \in Range(c.sections[k].lang)
  /\ looksLikeDecls(Join(CodesOf(c.sections), << "\n" >>))

\* no separate style block, and a script that defines the style variable
InlineStyled(content) ==
  /\ "<style scoped>\n" \notin Range(content)
  /\ Contains(content, << "<script setup>\n", "const inlineStyle = " >>)

\* C8 as stated: a component whose only sections are CSS-tagged and match
\* the bare-declaration heuristic produces a synthesized file with no
\* separate style block and a script that defines the style variable.
C8_CssOnlyYieldsInlineFile ==
  \A k \in 1..Len(log) :
    CssOnlyDecls(CompOf(k)) => log[k].wrote /\ InlineStyled(log[k].content)

\* the CSS-tagged sections of c, none of them empty, and no script section
CssDeclsNoScript(c) ==
  /\ \E k \in 1..Len(c.sections) : "css" \in Range(c.sections[k].lang)
  /\ \A k \in 1..Len(c.sections) : c.sections[k].lang \notin ScriptLangs
  /\ looksLikeDecls(Join(CodesOf(SelectSeq(c.sections,
                                           LAMBDA x : "css" \in Range(x.lang))),
                         << "\n" >>))

\* C8 amended: a component whose only sections are CSS-tagged is never
\* written; a written component with no script section whose CSS-tagged
\* sections match the heuristic gets a file with no separate style block and
\* a script that defines the style variable.
C8_InlineStyleWhenWritten ==
  \A k \in 1..Len(log) :
    /\ CssOnlyDecls(CompOf(k)) => ~log[k].wrote
    /\ (log[k].wrote /\ CssDeclsNoScript(CompOf(k))) => InlineStyled(log[k].content)

\* a written component with bare CSS declarations, and a dropped CSS-only one
C8_Witness ==
  /\ \E k \in 1..Len(log) : log[k].wrote /\ CssDeclsNoScript(CompOf(k))
  /\ \E k \in 1..Len(log) : ~log[k].wrote /\ CssOnlyDecls(CompOf(k))

\* C9 as stated: a component whose raw name sanitizes to the empty string
\* gets the positional fallback as its base name.
C9_EmptyGetsPositional ==
  \A k \in 1..Len(log) :
    (log[k].wrote /\ Stripped(CompOf(k).name) = <<>>) =>
      log[k].base = << "Component", "_" >> \o Digits(log[k].idx + 1)

\* C9 amended: an empty raw name gets the positional fallback
\* Component_<index+1>; a raw name that is not empty but sanitizes to the
\* empty string gets the constant base name Generated at every position.
C9_FallbackNames ==
  \A k \in 1..Len(log) :
    (log[k].wrote /\ Stripped(CompOf(k).name) = <<>>) =>
      log[k].base = IF CompOf(k).name = <<>>
                    THEN << "Component", "_" >> \o Digits(log[k].idx + 1)
                    ELSE << "Generated" >>

\* two punctuation-only names written at different positions, and an empty one
C9_Witness ==
  /\ \E j, k \in 1..Len(log) :
       /\ j < k /\ log[j].wrote /\ log[k].wrote
       /\ CompOf(j).name # <<>> /\ Stripped(CompOf(j).name) = <<>>
       /\ CompOf(k).name # <<>> /\ Stripped(CompOf(k).name) = <<>>
       /\ log[j].base = log[k].base
  /\ \E k \in 1..Len(log) : log[k].wrote /\ CompOf(k).name = <<>>

(***************************************************************************)
(* Properties of parseBlocks (checked under SpecParse)                     *)
(***************************************************************************)
\* the lines of the input as the parser sees them
InputLines == SplitLines(arg)

IsCompHeader(raw) == compRe(StripTabs(raw)).matched

IsSecHeader(raw) == ~IsCompHeader(raw) /\ secRe(StripTabs(raw)).matched

\* the body of the section whose header is line k: the lines up to the next
\* header or the end of the input, each followed by one newline
BodyAt(lines, k) ==
  LET hdrs == { j \in (k + 1)..Len(lines) :
                  IsCompHeader(lines[j]) \/ IsSecHeader(lines[j]) }
      stop == IF hdrs = {} THEN Len(lines) ELSE SetMin(hdrs) - 1
  IN  Join([ j \in 1..(stop - k) |-> lines[k + j] \o << "\n" >> ], <<>>)

\* the bodies of the sections of the input, in order; a section header counts
\* once a component header has been seen
RECURSIVE BodiesFrom(_, _, _)
BodiesFrom(lines, k, inComp) ==
  IF k > Len(lines) THEN <<>>
  ELSE IF IsCompHeader(lines[k]) THEN BodiesFrom(lines, k + 1, TRUE)
  ELSE IF IsSecHeader(lines[k]) /\ inComp
       THEN << BodyAt(lines, k) >> \o BodiesFrom(lines, k + 1, inComp)
  ELSE BodiesFrom(lines, k + 1, inComp)

\* the code of every parsed section, in order
RECURSIVE ParsedCodes(_)
ParsedCodes(cs) ==
  IF Len(cs) = 0 THEN <<>>
  ELSE CodesOf(Head(cs).sections) \o ParsedCodes(Tail(cs))

\* C4: the code of every parsed section is exactly the raw lines of its
\* body, in order, each followed by one newline.
C4_CodeIsRawBody ==
  ret.done => ParsedCodes(ret.val) = BodiesFrom(InputLines, 1, FALSE)

\* a parsed section whose body has several lines, one of them with tabs
C4_Witness ==
  /\ ret.done
  /\ \E k \in 1..Len(ParsedCodes(ret.val)) :
       /\ "\t" \in Range(ParsedCodes(ret.val)[k])
       /\ Cardinality({ j \in 1..Len(ParsedCodes(ret.val)[k]) :
                          ParsedCodes(ret.val)[k][j] = "\n" }) >= 2

(***************************************************************************)
(* Properties of buildSFC (checked under SpecSFC)                          *)
(***************************************************************************)
\* the script candidates of the input component: the code of its js, jsx and
\* tsx sections
Candidates == CodesOf(SelectSeq(arg.component.sections,
                                LAMBDA x : x.lang \in ScriptLangs))

\* the template of the input component already binds a style
HasStyleAttr ==
  \E k \in 1..Len(arg.component.sections) :
    /\ arg.component.sections[k].lang # <<>>
    /\ "css" \notin Range(arg.component.sections[k].lang)
    /\ arg.component.sections[k].lang \notin ScriptLangs
    /\ ":style" \in Range(arg.component.sections[k].code)

BindsInlineStyle(content, obj) ==
  Contains(content, << "<script setup>\n", "const inlineStyle = " >> \o obj
                      \o << "\n", "\n</script>\n" >>)

IsWrappedTemplate(content) ==
  "\n<div :style=\"inlineStyle\">\n" \in Range(content)

\* C7 as stated: if any script candidate, trimmed, is wrapped in { ... }, the
\* script binds it as the inline style variable and the template is wrapped
\* in an element bound to it; only when none is wrapped are the candidates
\* concatenated verbatim as the setup-script body.
C7_AnyWrappedCandidate ==
  ret.done =>
    IF \E k \in 1..Len(Candidates) : IsWrapped(Trim(Candidates[k]))
    THEN /\ \E k \in 1..Len(Candidates) :
              /\ IsWrapped(Trim(Candidates[k]))
              /\ BindsInlineStyle(ret.val.content, Trim(Candidates[k]))
         /\ IsWrappedTemplate(ret.val.content)
    ELSE Len(Candidates) > 0 =>
           Contains(ret.val.content,
                    << "<script setup>\n" >> \o Join(Candidates, << "\n" >>)
                      \o << "\n", "\n</script>\n" >>)

\* C7 amended: if the first script candidate, trimmed, is wrapped in { ... },
\* the script binds it as the inline style variable and the template is
\* wrapped in an element bound to it unless the template already contains
\* :style; when the first candidate is not wrapped, all candidates are
\* concatenated verbatim as the setup-script body.
C7_FirstCandidateDecides ==
  (ret.done /\ Len(Candidates) > 0) =>
    IF IsWrapped(Trim(Candidates[1]))
    THEN /\ BindsInlineStyle(ret.val.content, Trim(Candidates[1]))
         /\ IsWrappedTemplate(ret.val.content) <=> ~HasStyleAttr
    ELSE /\ Contains(ret.val.content,
                     << "<script setup>\n" >> \o Join(Candidates, << "\n" >>)
                       \o << "\n", "\n</script>\n" >>)
         /\ ~IsWrappedTemplate(ret.val.content)

\* a component whose first candidate is raw script and whose second is wrapped
C7_Witness ==
  /\ ret.done
  /\ Len(Candidates) >= 2
  /\ ~IsWrapped(Trim(Candidates[1]))
  /\ IsWrapped(Trim(Candidates[2]))

(***************************************************************************)
(* Properties of the code panel (checked under SpecUI)                     *)
(***************************************************************************)
\* the code blocks of the current selection, options and plugin
CurrentBlocks ==
  IF selectedNode = "null" \/ selection > 1 THEN <<>>
  ELSE CodegenBlocks(selectedNode, options, activePlugin)

\* C10: once every updateCode invocation has completed, the displayed
\* codeBlocks are those of the most recently selected node: the result of an
\* earlier invocation never overwrites the result of a later one.
C10_LatestResultShown ==
  calls = {} => codeBlocks = CurrentBlocks

=============================================================================
